---------------------------- MODULE Spec2Model ----------------------------
(***************************************************************************)
(* Model of ssm_analyze/gui/widgets/plots.py: the plotting widget          *)
(* (PlotWidget / DataSetPlotter), its background subtraction, rotation     *)
(* and slice extraction.                                                   *)
(*                                                                         *)
(* Numbers.  An array cell is a pair <<n, d>>:                             *)
(*   d > 0        the finite value n/d, in lowest terms;                   *)
(*   <<0, 0>>     not-a-number;                                            *)
(*   <<1, 0>>     +infinity;   <<-1, 0>>  -infinity.                       *)
(* Arithmetic follows IEEE 754 for the non-finite values and is exact for  *)
(* the finite ones: floating-point rounding is not modelled.               *)
(* A 1D array is a sequence of cells, a 2D array of shape (N, M) is a      *)
(* sequence of N rows of M cells.  Python's 0-based index i is i + 1 here. *)
(***************************************************************************)
EXTENDS Integers, Sequences, FiniteSets, TLC

(***************************************************************************)
(* Bounds of the model.                                                    *)
(***************************************************************************)
\* Finite input cells are the integers 0 .. MaxVal.
MaxVal == 1
\* 2D inputs have 2 .. MaxRows rows and 2 .. MaxCols columns, 1D inputs
\* 2 .. MaxCols points.
MaxRows == 2
MaxCols == 3
\* Nested plot_arrays calls beyond MaxNest end in a RecursionError (Python's
\* own limit is far larger; the model only needs one that is never reached
\* by a chain of callbacks that terminates).
MaxNest == 3

(***************************************************************************)
(* Cell arithmetic (numpy float64 semantics, exact on finite values).      *)
(***************************************************************************)
NaN == <<0, 0>>
PInf == <<1, 0>>
NInf == <<-1, 0>>

Abs(i) == IF i < 0 THEN -i ELSE i
Sign(i) == IF i < 0 THEN -1 ELSE IF i > 0 THEN 1 ELSE 0

RECURSIVE GCD(_, _)
GCD(a, b) == IF b = 0 THEN a ELSE GCD(b, a % b)

\* The cell n/d (d may be negative or zero: x/0 is +-inf, 0/0 is nan).
Rat(n, d) ==
    IF d = 0 THEN <<Sign(n), 0>>
    ELSE LET g == GCD(Abs(n), Abs(d))
         IN  <<Sign(d) * (n \div g), Abs(d) \div g>>

Fin(i) == <<i, 1>>

\* np.isfinite / np.isnan on one cell
isfinite(v) == v[2] # 0
isnan(v) == v = NaN

Neg(a) == <<-a[1], a[2]>>

Add(a, b) ==
    IF isnan(a) \/ isnan(b) THEN NaN
    ELSE IF ~isfinite(a) THEN (IF ~isfinite(b) /\ b # a THEN NaN ELSE a)
    ELSE IF ~isfinite(b) THEN b
    ELSE Rat(a[1] * b[2] + b[1] * a[2], a[2] * b[2])

Sub(a, b) == Add(a, Neg(b))

Mul(a, b) ==
    IF isnan(a) \/ isnan(b) THEN NaN
    ELSE IF isfinite(a) /\ isfinite(b) THEN Rat(a[1] * b[1], a[2] * b[2])
    ELSE <<Sign(a[1]) * Sign(b[1]), 0>>      \* inf * 0 = nan

Div(a, b) ==
    IF isnan(a) \/ isnan(b) THEN NaN
    ELSE IF ~isfinite(b) THEN (IF isfinite(a) THEN Fin(0) ELSE NaN)
    ELSE IF ~isfinite(a) THEN <<a[1] * (IF b[1] < 0 THEN -1 ELSE 1), 0>>
    ELSE Rat(a[1] * b[2], a[2] * b[1])

\* a < b for cells that are not nan
Less(a, b) ==
    IF ~isfinite(a) THEN (a = NInf /\ b # NInf)
    ELSE IF ~isfinite(b) THEN b = PInf
    ELSE a[1] * b[2] < b[1] * a[2]


(***************************************************************************)
(* Array helpers.                                                          *)
(***************************************************************************)
RECURSIVE Flatten(_)
\* z.ravel(): the rows of a 2D array one after the other
Flatten(z) == IF z = <<>> THEN <<>> ELSE Head(z) \o Flatten(Tail(z))

\* z.shape for a 2D array
NRows(z) == Len(z)
NCols(z) == Len(z[1])
\* z[:, j]
Column(z, j) == [i \in 1..NRows(z) |-> z[i][j]]
\* z.T
Transpose(z) == [j \in 1..NCols(z) |-> Column(z, j)]

RECURSIVE SumSeq(_)
SumSeq(s) == IF s = <<>> THEN Fin(0) ELSE Add(Head(s), SumSeq(Tail(s)))

NotNaN(v) == ~isnan(v)
\* the cells the nan-functions of numpy look at: every cell that is not nan
\* (infinite cells are kept)
DropNaN(s) == SelectSeq(s, NotNaN)

LessEq(a, b) == a = b \/ Less(a, b)
\* the k-th smallest (k = 1 .. Len) cell of a sequence without nan
Kth(s, k) ==
    LET i == CHOOSE i \in DOMAIN s :
                 /\ Cardinality({j \in DOMAIN s : Less(s[j], s[i])}) < k
                 /\ Cardinality({j \in DOMAIN s : LessEq(s[j], s[i])}) >= k
    IN  s[i]

(***************************************************************************)
(* The reductions of numpy used as background estimates.  On an input      *)
(* without any non-nan cell each returns nan (with a RuntimeWarning).      *)
(***************************************************************************)
nanmin(s) ==
    LET t == DropNaN(s) IN IF t = <<>> THEN NaN ELSE Kth(t, 1)

nanmax(s) ==
    LET t == DropNaN(s) IN IF t = <<>> THEN NaN ELSE Kth(t, Len(t))

\* a mean that divides by one more than the number of cells
nanmean_biased(s) ==
    LET t == DropNaN(s) IN IF t = <<>> THEN NaN ELSE Div(SumSeq(t), Fin(Len(t) + 1))
nanmean(s) ==
    LET t == DropNaN(s) IN IF t = <<>> THEN NaN ELSE Div(SumSeq(t), Fin(Len(t)))

nanmedian(s) ==
    LET t == DropNaN(s)
        n == Len(t)
    IN  IF n = 0 THEN NaN
        ELSE IF n % 2 = 1 THEN Kth(t, (n + 1) \div 2)
        ELSE Div(Add(Kth(t, n \div 2), Kth(t, n \div 2 + 1)), Fin(2))

(***************************************************************************)
(* fit_line(x, y): np.polyfit(x, y, 1), then slope * x + offset.           *)
(*  - polyfit raises TypeError when x and y differ in length;              *)
(*  - polyfit does no masking: with a non-finite y cell the least-squares  *)
(*    solve returns non-finite coefficients, so every cell of the returned *)
(*    line is non-finite (nan stands for it);                              *)
(*  - otherwise the ordinary least-squares line (x holds the coordinates   *)
(*    of a scan: at least two points, pairwise distinct, so the system has *)
(*    full rank).                                                          *)
(* The result is [raised, scalar, val, arr]: arr is the returned array.    *)
(***************************************************************************)
Raised == [raised |-> TRUE, scalar |-> FALSE, val |-> NaN, arr |-> <<>>]
Scalar(v) == [raised |-> FALSE, scalar |-> TRUE, val |-> v, arr |-> <<>>]
Array(a) == [raised |-> FALSE, scalar |-> FALSE, val |-> NaN, arr |-> a]

AllFinite(s) == \A k \in DOMAIN s : isfinite(s[k])

\* np.polyfit(x, y, 1) on finite data: <<slope, offset>>
polyfit1(x, y) ==
    LET n == Fin(Len(x))
        line(slope, Sx, Sy) == <<slope, Div(Sub(Sy, Mul(slope, Sx)), n)>>
        normal(Sx, Sy, Sxx, Sxy) ==
            line(Div(Sub(Mul(n, Sxy), Mul(Sx, Sy)),
                     Sub(Mul(n, Sxx), Mul(Sx, Sx))), Sx, Sy)
    IN  normal(SumSeq(x), SumSeq(y),
               SumSeq([k \in DOMAIN x |-> Mul(x[k], x[k])]),
               SumSeq([k \in DOMAIN x |-> Mul(x[k], y[k])]))

fit_line(x, y) ==
    LET line(c) == Array([k \in DOMAIN x |-> Add(Mul(c[1], x[k]), c[2])])
    IN  IF Len(x) # Len(y) THEN Raised
        ELSE IF ~AllFinite(y) THEN Array([k \in DOMAIN x |-> NaN])
        ELSE line(polyfit1(x, y))


(***************************************************************************)
(* fit_plane(x, y, z): scipy.linalg.lstsq of the finite cells of z against *)
(* the rows (X, Y, 1) of np.meshgrid(x, y), then the plane on the whole    *)
(* grid.  lstsq returns the least-squares solution of minimum norm:        *)
(*   no finite cell      the zero vector (lstsq's m == 0 case);            *)
(*   one finite cell     a * b / (a . a) for its row a and value b;        *)
(*   G = r^T r regular   the solution of the normal equations G c = r^T b; *)
(*   G singular          (the finite cells lie on one line) the solution   *)
(*                       of G c = r^T b orthogonal to the null vector n of *)
(*                       r, which is the solution of (G + n n^T) c = r^T b.*)
(***************************************************************************)
Det3(m) ==
    Add(Sub(Mul(m[1][1], Sub(Mul(m[2][2], m[3][3]), Mul(m[2][3], m[3][2]))),
            Mul(m[1][2], Sub(Mul(m[2][1], m[3][3]), Mul(m[2][3], m[3][1])))),
        Mul(m[1][3], Sub(Mul(m[2][1], m[3][2]), Mul(m[2][2], m[3][1]))))

\* m with column k replaced by the vector h
ReplaceCol(m, k, h) ==
    [i \in 1..3 |-> [j \in 1..3 |-> IF j = k THEN h[i] ELSE m[i][j]]]

\* the solution of m c = h for a regular 3 x 3 matrix (Cramer's rule)
Solve3(m, h) == [k \in 1..3 |-> Div(Det3(ReplaceCol(m, k, h)), Det3(m))]

Cross(a, b) ==
    << Sub(Mul(a[2], b[3]), Mul(a[3], b[2])),
       Sub(Mul(a[3], b[1]), Mul(a[1], b[3])),
       Sub(Mul(a[1], b[2]), Mul(a[2], b[1])) >>

\* scipy.linalg.lstsq(r, b): r a sequence of rows of 3 cells, b the values
lstsq(r, b) ==
    LET one(aa) == [i \in 1..3 |-> Div(Mul(r[1][i], b[1]), aa)]
        deficient(G, h, n) ==
            Solve3([i \in 1..3 |-> [j \in 1..3 |-> Add(G[i][j], Mul(n[i], n[j]))]], h)
        normal(G, h) ==
            IF Det3(G) # Fin(0) THEN Solve3(G, h)
            ELSE deficient(G, h, Cross(r[1], r[2]))
    IN  IF Len(r) = 0 THEN <<Fin(0), Fin(0), Fin(0)>>
        ELSE IF Len(r) = 1
        THEN one(SumSeq([i \in 1..3 |-> Mul(r[1][i], r[1][i])]))
        ELSE normal([i \in 1..3 |-> [j \in 1..3 |->
                        SumSeq([k \in DOMAIN r |-> Mul(r[k][i], r[k][j])])]],
                    [i \in 1..3 |-> SumSeq([k \in DOMAIN r |-> Mul(r[k][i], b[k])])])

fit_plane(x, y, z) ==
    LET cells == { <<i, j>> \in (1..NRows(z)) \X (1..NCols(z)) : isfinite(z[i][j]) }
        plane(coeffs) ==
            [i \in 1..NRows(z) |-> [j \in 1..NCols(z) |->
                Add(Add(Mul(coeffs[1], x[j]), Mul(coeffs[2], y[i])), coeffs[3])]]
        \* X[mask], Y[mask] and z[mask] list the finite cells in row-major
        \* order: pos holds their indices
        fit(pos) ==
            plane(lstsq([k \in DOMAIN pos |-> <<x[pos[k][2]], y[pos[k][1]], Fin(1)>>],
                        [k \in DOMAIN pos |-> z[pos[k][1]][pos[k][2]]]))
    IN  fit(SelectSeq(Flatten([i \in 1..NRows(z) |->
                                 [j \in 1..NCols(z) |-> <<i, j>>]]),
                      LAMBDA c : c \in cells))


(***************************************************************************)
(* subtract_line_by_line(zdata, axis, func).                               *)
(* func is one of the callables subtract_background builds for its         *)
(* line-by-line branch: the record [idx, x] stands for funcs[idx], x being *)
(* the coordinate array the 'linear' lambda captures.                      *)
(***************************************************************************)
\* funcs[func.idx](line) of the line-by-line branch
line_funcs(func, line) ==
    CASE func.idx = 0 -> Scalar(Fin(0))
      [] func.idx = 1 -> Scalar(nanmin(line))
      [] func.idx = 2 -> Scalar(nanmax(line))
      [] func.idx = 3 -> Scalar(nanmean(line))
      [] func.idx = 4 -> Scalar(nanmedian(line))
      [] OTHER        -> fit_line(func.x, line)

\* a - r for a 1D array a and a value r returned by a reduction
\* (a scalar is broadcast, an array is subtracted cell by cell)
Minus(a, r) ==
    IF r.scalar THEN [k \in DOMAIN a |-> Sub(a[k], r.val)]
    ELSE [k \in DOMAIN a |-> Sub(a[k], r.arr[k])]

RECURSIVE loop_rows(_, _, _)
\* for i in range(zdata.shape[0]): zdata[i, :] -= func(zdata[i, :])
loop_rows(z, i, func) ==
    IF i > NRows(z) THEN [raised |-> FALSE, z |-> z]
    ELSE LET next(r) ==
                 IF r.raised THEN [raised |-> TRUE, z |-> z]
                 ELSE loop_rows([z EXCEPT ![i] = Minus(z[i], r)], i + 1, func)
         IN  next(line_funcs(func, z[i]))

\* z with column j replaced by the 1D array c
SetColumn(z, j, c) ==
    [i \in 1..NRows(z) |-> [k \in 1..NCols(z) |-> IF k = j THEN c[i] ELSE z[i][k]]]

RECURSIVE loop_cols(_, _, _)
\* for i in range(zdata.shape[axis]): zdata[:, i] -= func(zdata[:, i])
loop_cols(z, j, func) ==
    IF j > NCols(z) THEN [raised |-> FALSE, z |-> z]
    ELSE LET next(r) ==
                 IF r.raised THEN [raised |-> TRUE, z |-> z]
                 ELSE loop_cols(SetColumn(z, j, Minus(Column(z, j), r)), j + 1, func)
         IN  next(line_funcs(func, Column(z, j)))

\* subtract_line_by_line without the copy of line 86: the loops write into
\* the caller's array
subtract_line_by_line_inplace(zdata, axis, func) ==
    LET result(out) == [raised |-> out.raised, ret |-> out.z, arg |-> out.z]
    IN  IF axis = 0 THEN result(loop_rows(zdata, 1, func))
        ELSE result(loop_cols(zdata, 1, func))

\* subtract_line_by_line without the test of axis: always by rows
subtract_line_by_line_rows(zdata, axis, func) ==
    LET result(out) == [raised |-> out.raised, ret |-> out.z, arg |-> zdata]
    IN  result(loop_rows(zdata, 1, func))

\* The loops write into the array the name zdata is bound to.  Line 86
\* rebinds it to a copy, so the caller's array keeps its cells: `arg' is the
\* caller's array after the call, `ret' the returned array (when no func
\* call raised).
subtract_line_by_line(zdata, axis, func) ==
    LET result(out) == [raised |-> out.raised, ret |-> out.z, arg |-> zdata]
    IN  IF axis = 0 THEN result(loop_rows(zdata, 1, func))
        ELSE result(loop_cols(zdata, 1, func))


(***************************************************************************)
(* DataItem(name, array): array is a pint quantity, here its magnitude     *)
(* (`array') and the name str() gives its unit (`units').  None is the     *)
(* item with the empty name (no array of a dataset has an empty name).     *)
(***************************************************************************)
DataItem(name, array, units) == [name |-> name, array |-> array, units |-> units]
None == DataItem("", <<>>, "")
\* self.current_data = None
NoData == [xs |-> None, ys |-> None, zs |-> None]

(***************************************************************************)
(* Units.  What pint makes of the text of a unit field: the unit's name as *)
(* str() prints it, or "" for a text that names no unit ("Array unit",     *)
(* "Length unit", a typing error).  UnitSize is the unit in base units of  *)
(* its dimension (volt, micrometer).                                       *)
(***************************************************************************)
ParseUnit(text) ==
    CASE text \in {"V", "volt"}        -> "volt"
      [] text \in {"mV", "millivolt"}  -> "millivolt"
      [] text \in {"um", "micrometer"} -> "micrometer"
      [] OTHER                         -> ""

UnitDim(u) == IF u \in {"volt", "millivolt"} THEN "voltage" ELSE "length"
UnitSize(u) == IF u = "millivolt" THEN Rat(1, 1000) ELSE Fin(1)

Scale1(a, f) == [k \in DOMAIN a |-> Mul(a[k], f)]
\* the array a (1D, or 2D when is2d) with every cell multiplied by f
ScaleArray(a, f, is2d) ==
    IF is2d THEN [i \in DOMAIN a |-> Scale1(a[i], f)] ELSE Scale1(a, f)

\* item.array.ito(text): converts in place, or raises and leaves the array
\* as it is (an undefined unit, a unit of another dimension).
ito(item, text, is2d) ==
    LET u == ParseUnit(text)
    IN  IF u = "" \/ UnitDim(u) # UnitDim(item.units)
        THEN [raised |-> TRUE, item |-> item]
        ELSE [raised |-> FALSE,
              item |-> [item EXCEPT
                          !.array = ScaleArray(item.array,
                                       Div(UnitSize(item.units), UnitSize(u)), is2d),
                          !.units = u]]


(***************************************************************************)
(* Rotation.  scipy.ndimage.rotate(z, angle, cval=...) with its defaults   *)
(* (reshape=True, order=3, mode='constant').  The model rotates by the     *)
(* angles of Angles:                                                       *)
(*   0    keeps every cell in its place;                                   *)
(*   90   turns the array a quarter turn (np.rot90: the output has the     *)
(*        shape (M, N) and no border cell, so cval is not used);           *)
(*   45   gives a square array of side floor((N + M) / sqrt(2) + 1/2): an  *)
(*        output cell whose centre falls outside the input is a border     *)
(*        cell and gets cval, another one gets the value interpolated at   *)
(*        its place, for which the model takes the nearest input cell.     *)
(* The order-3 spline prefilter runs over every row and column whatever    *)
(* the angle, so one non-finite input cell makes every interpolated cell   *)
(* non-finite (nan stands for it).                                         *)
(***************************************************************************)
Angles == {0, 45, 90}
RightAngles == {0, 90}

\* u <= a * sqrt(2), for integers u and a
LeSqrt2(u, a) ==
    IF a >= 0 THEN u <= 0 \/ u * u <= 2 * a * a
    ELSE u < 0 /\ u * u >= 2 * a * a

\* the side of the array a rotation by 45 degrees makes of shape (n, m)
Side45(n, m) ==
    CHOOSE k \in 1..(n + m) :
       /\ (2 * k - 1) * (2 * k - 1) <= 2 * (n + m) * (n + m)
       /\ (2 * k + 1) * (2 * k + 1) > 2 * (n + m) * (n + m)

\* Output cell (i, j) of a rotation by 45 degrees of an array of shape
\* (n, m), 1-based: its centre is, along the rows of the input, at
\* Along45 / sqrt(2) from the input's centre, and across at Across45 / sqrt(2).
Along45(n, m, i, j) == (i - 1) + (j - 1) - (Side45(n, m) - 1)
Across45(i, j) == j - i
IsBorder45(n, m, i, j) ==
    \/ 2 * Along45(n, m, i, j) * Along45(n, m, i, j) > (n - 1) * (n - 1)
    \/ 2 * Across45(i, j) * Across45(i, j) > (m - 1) * (m - 1)

\* the index (1-based) among len cells of the one nearest to the place
\* a / sqrt(2) from their centre
Nearest45(a, len) ==
    CHOOSE r \in 1..len :
       /\ LeSqrt2(2 * (r - 1) - (len - 1) - 1, a)
       /\ LeSqrt2(-(2 * (r - 1) - (len - 1) + 1), -a)

rotate(z, angle, cval) ==
    LET finite == \A i \in 1..NRows(z) : AllFinite(z[i])
        n == NRows(z)
        m == NCols(z)
    IN  CASE angle = 0 ->
               [i \in 1..n |-> [j \in 1..m |-> IF finite THEN z[i][j] ELSE NaN]]
          [] angle = 90 ->
               [i \in 1..m |-> [j \in 1..n |->
                   IF finite THEN z[j][m + 1 - i] ELSE NaN]]
          [] OTHER ->
               [i \in 1..Side45(n, m) |-> [j \in 1..Side45(n, m) |->
                   IF IsBorder45(n, m, i, j) THEN cval
                   ELSE IF finite
                   THEN z[Nearest45(Along45(n, m, i, j), n)][Nearest45(Across45(i, j), m)]
                   ELSE NaN]]

\* the rotation without the test of angle
rotated_always(z, angle, cval) == rotate(z, angle, cval)

\* if angle: z = rotate(z, angle, cval=...)
rotated(z, angle, cval) ==
    IF angle # 0 THEN rotate(z, angle, cval) ELSE z

\* np.linspace(*ax.get_xlim(), n): n evenly spaced points over the limits of
\* the axes.  The limits are the rendering library's; the model keeps, for
\* the k-th point, its index k - 1.
linspace(n) == [k \in 1..n |-> Fin(k - 1)]

(***************************************************************************)
(* The widget: one record for the DataSetPlotter object (a PlotWidget) and *)
(* the Qt and matplotlib objects it owns.                                  *)
(*   visible.*   what show()/hide() last set on a widget                   *)
(*   enabled.*   what setEnabled() last set                                *)
(*   slider      the matplotlib slice slider of the current figure and     *)
(*               what its callback `update' closes over (zs, angle,        *)
(*               slice_state); `line' is the slice drawn in ax_cut, and    *)
(*               `initial' the one plot_2d_mpl drew before it called       *)
(*               update(0); fig.clear() removes the slider                 *)
(*   pyqt_imview the SliceableImageView: its image, crosshair indices and  *)
(*               the data of its two slice plots                           *)
(* Three fields are not a part of the program's state but record what a    *)
(* handler did: `plotted' holds the arguments of the last plot_arrays      *)
(* call that drew, `raised' tells that an exception is on its way up the   *)
(* call stack and, between events, that the last event's handler ended     *)
(* with one (`reported': one was raised in a slot Qt called from inside    *)
(* the handler, where it is reported and goes no further), `nested' is the *)
(* deepest nesting of plot_arrays calls reached while the last event was   *)
(* handled (`depth' counts the calls in flight), `written' is the kind of  *)
(* file the last event wrote ("" for none).                                *)
(* `view' is the point of the pyqtgraph view under the crosshair lines when*)
(* an image is set, in item coordinates: an input of the event.            *)
(* Colormaps, the grid option, labels and titles are left to the rendering *)
(* libraries; the 'color by value' box only selects the artist that shows  *)
(* the slice (a LineCollection or a Line2D), which get the same data.      *)
(***************************************************************************)
NoSlider ==
    [alive |-> FALSE, val |-> 0, valmax |-> 0, xs |-> None, ys |-> None,
     zs |-> None, angle |-> 0, slice_state |-> "", line |-> <<>>,
     initial |-> <<>>]

NoExpData == [k \in {} |-> 0]

\* A dataset: its location tells a scan ("_scan_": 2D, over x and y) from a
\* touchdown ("_td_cap_": 1D, over height); x_dir and y_dir are the loop
\* directions of its metadata; x, y and z are the arrays scan_to_arrays or
\* td_to_arrays reads from it (for a touchdown x is the height, z the 1D
\* array measured, y is unused).  NoDataset is self.dataset = None.
NoDataset ==
    [location |-> "", x_dir |-> "pos", y_dir |-> "pos",
     x |-> <<>>, y |-> <<>>, z |-> <<>>]

\* The object after DataSetPlotter.__init__ (lines 117-170 and 975-1005).
NewPlotter ==
    [ current_data |-> NoData,
      exp_data |-> NoExpData,
      dataset |-> NoDataset,
      arrays |-> NoData,
      indep_vars |-> <<>>,
      selector |-> "",
      backsub_radio |-> 0,
      line_backsub_btn |-> FALSE,
      line_backsub_radio |-> 0,
      opt_checks |-> [pyqtgraph |-> FALSE, histogram |-> FALSE],
      slice_radio |-> 0,
      slice_state |-> 0,
      rotate_slider |-> 0,
      units |-> "Array unit",
      xy_units_box |-> FALSE,
      xy_units |-> "Length unit",
      visible |-> [toolbar |-> TRUE, canvas |-> TRUE, pyqt_splitter |-> FALSE,
                   pyqt_plot |-> FALSE, pyqt_imview |-> FALSE,
                   x_slice_widget |-> FALSE, y_slice_widget |-> FALSE,
                   rotate_widget |-> TRUE],
      enabled |-> [line_backsub_btn |-> TRUE, x_line_backsub_btn |-> FALSE,
                   y_line_backsub_btn |-> FALSE, bins_box |-> FALSE,
                   line_color_btn |-> FALSE, units |-> FALSE, xy_units |-> FALSE],
      slider |-> NoSlider,
      pyqt_imview |-> [image |-> <<>>, x_cross_index |-> 0, y_cross_index |-> 0,
                       x_slice_widget_data |-> <<Fin(0), Fin(0)>>,
                       y_slice_widget_data |-> <<Fin(0), Fin(0)>>],
      plotted |-> NoData,
      raised |-> FALSE,
      reported |-> FALSE,
      written |-> "",
      depth |-> 0,
      nested |-> 0,
      view |-> <<0, 0>> ]

get_opt(w, optname) == w.opt_checks[optname]

\* {d.name: {"array": d.array.magnitude, "unit": str(d.array.units)}}
ExpEntry(array, unit) == [array |-> array, unit |-> unit]

(***************************************************************************)
(* plot_1d (lines 377-396)                                                 *)
(***************************************************************************)
plot_1d(w, xs, ys) ==
    LET qt == get_opt(w, "pyqtgraph")
    IN  [w EXCEPT
           !.enabled.bins_box = FALSE,
           !.visible.pyqt_plot = IF qt THEN TRUE ELSE @,
           !.visible.pyqt_splitter = IF qt THEN TRUE ELSE @,
           !.visible.toolbar = IF qt THEN @ ELSE TRUE,
           !.visible.canvas = IF qt THEN @ ELSE TRUE,
           !.visible.rotate_widget = FALSE,
           !.exp_data = (xs.name :> ExpEntry(xs.array, xs.units))
                        @@ (ys.name :> ExpEntry(ys.array, ys.units))]

(***************************************************************************)
(* SliceableImageView (lines 1278-1379)                                    *)
(***************************************************************************)
Clamp(i, n) == IF i > n - 1 THEN n - 1 ELSE IF i < 0 THEN 0 ELSE i

\* update_slice that does not follow the crosshair
imview_update_slice_first(v) ==
    [v EXCEPT
       !.x_slice_widget_data = Column(v.image, 1),
       !.y_slice_widget_data = v.image[1]]

\* update_slice: the x slice shows zdata[:, y_cross_index], the y slice
\* zdata[x_cross_index, :]
imview_update_slice(v) ==
    [v EXCEPT
       !.x_slice_widget_data = Column(v.image, v.y_cross_index + 1),
       !.y_slice_widget_data = v.image[v.x_cross_index + 1]]

\* set_position: the crosshair indices are the item coordinates under the
\* lines, clamped to the image
imview_set_position(v, item_x, item_y) ==
    imview_update_slice(
      [v EXCEPT !.x_cross_index = Clamp(item_x, NRows(v.image)),
                !.y_cross_index = Clamp(item_y, NCols(v.image))])

\* setImage: sets the image, then calls set_position()
imview_setImage(v, z, view) ==
    imview_set_position([v EXCEPT !.image = z], view[1], view[2])

\* plot_2d_qt filling the border cells as plot_2d_mpl does
plot_2d_qt_nanfill(w, xs, ys, zs, angle) ==
    [w EXCEPT
       !.enabled.bins_box = FALSE,
       !.pyqt_imview = imview_setImage(@, rotated(Transpose(zs.array), angle, NaN),
                                       w.view),
       !.exp_data = (xs.name :> ExpEntry(xs.array, xs.units))
                    @@ (ys.name :> ExpEntry(ys.array, ys.units))
                    @@ (zs.name :> ExpEntry(rotated(Transpose(zs.array), angle, NaN),
                                            zs.units))]

(***************************************************************************)
(* plot_2d_qt (lines 463-502)                                              *)
(***************************************************************************)
plot_2d_qt(w, xs, ys, zs, angle) ==
    LET show(z) ==
            [w EXCEPT
               !.enabled.bins_box = FALSE,
               !.pyqt_imview = imview_setImage(@, z, w.view),
               !.exp_data = (xs.name :> ExpEntry(xs.array, xs.units))
                            @@ (ys.name :> ExpEntry(ys.array, ys.units))
                            @@ (zs.name :> ExpEntry(z, zs.units))]
    IN  show(rotated(Transpose(zs.array), angle, nanmin(Flatten(zs.array))))


(***************************************************************************)
(* plot_2d_mpl (lines 504-791) and the slider callback `update' it defines *)
(***************************************************************************)
\* update(val) (lines 718-788), for the slider of w moved to index i
plot_2d_mpl_update(w, i) ==
    LET s == w.slider
        \* line.set_ydata(z0) / lc.set_array(z0), self.exp_data["slice"] = ...
        draw(xdata, name, units, z0, valmax) ==
            [w EXCEPT
               !.slider.val = i,
               !.slider.valmax = valmax,
               !.slider.line = z0,
               !.exp_data = ("slice" :>
                    ((name :> ExpEntry(xdata, units))
                     @@ (s.zs.name :> ExpEntry(z0, s.zs.units))
                     @@ ("index" :> i)))
                  @@ w.exp_data]
        \* z0 = z[i, :] against x for the slice "x", z[:, i] against y for "y"
        slice(z) ==
            draw(IF s.slice_state = "x" THEN linspace(NCols(z)) ELSE linspace(NRows(z)),
                 IF s.slice_state = "x" THEN s.xs.name ELSE s.ys.name,
                 IF s.slice_state = "x" THEN s.xs.units ELSE s.ys.units,
                 IF s.slice_state = "x" THEN z[i + 1] ELSE Column(z, i + 1),
                 IF s.slice_state = "x" THEN NRows(z) - 1 ELSE NCols(z) - 1)
    IN  slice(rotated(s.zs.array, s.angle, NaN))

plot_2d_mpl(w, xs, ys, zs, angle, slice_state) ==
    LET \* lines 701-711: Slider(ax_slider, ..., 0, zs.array.shape[idx] - 1, valinit=0)
        valmax == IF slice_state = "x" THEN NCols(zs.array) - 1
                  ELSE NRows(zs.array) - 1
        \* lines 655-664: the first slice, masked with np.isfinite, and
        \* lines 701-790: the slider and update(0)
        slice(w1, masked) ==
            plot_2d_mpl_update(
               [w1 EXCEPT !.slider =
                   [alive |-> TRUE, val |-> 0, valmax |-> valmax, xs |-> xs,
                    ys |-> ys, zs |-> zs, angle |-> angle,
                    slice_state |-> slice_state, line |-> masked,
                    initial |-> masked]],
               0)
        cut(w1) ==
            IF slice_state = "" THEN w1
            ELSE slice(w1, SelectSeq(IF slice_state = "x" THEN zs.array[1]
                                     ELSE Column(zs.array, 1),
                                     isfinite))
        \* lines 635-644
        image(z) ==
            cut([w EXCEPT
                   !.enabled.bins_box = get_opt(w, "histogram"),
                   !.exp_data = (xs.name :> ExpEntry(linspace(NCols(z)), xs.units))
                                @@ (ys.name :> ExpEntry(linspace(NRows(z)), ys.units))
                                @@ (zs.name :> ExpEntry(Transpose(z), zs.units))])
    IN  image(rotated(Transpose(zs.array), angle, NaN))

(***************************************************************************)
(* plot_2d (lines 426-461)                                                 *)
(***************************************************************************)
plot_2d(w, xs, ys, zs, angle, slice_state) ==
    LET w1 == [w EXCEPT !.visible.rotate_widget = TRUE]
    IN  IF get_opt(w, "pyqtgraph")
        THEN [plot_2d_qt(w1, xs, ys, zs, angle) EXCEPT
                !.visible.pyqt_imview = TRUE,
                !.visible.pyqt_splitter = TRUE]
        ELSE [plot_2d_mpl(w1, xs, ys, zs, angle, slice_state) EXCEPT
                !.visible.toolbar = TRUE,
                !.visible.canvas = TRUE]


\* an update_slice that takes the x slice for the y slice
update_slice_swapped(w) ==
    CASE w.slice_state = 0 ->
           [w EXCEPT !.visible.x_slice_widget = FALSE,
                     !.visible.y_slice_widget = FALSE,
                     !.enabled.line_color_btn = FALSE]
      [] w.slice_state = 1 ->
           [w EXCEPT !.visible.x_slice_widget = FALSE,
                     !.visible.y_slice_widget = TRUE,
                     !.enabled.line_color_btn = TRUE]
      [] w.slice_state = 2 ->
           [w EXCEPT !.visible.x_slice_widget = TRUE,
                     !.visible.y_slice_widget = FALSE,
                     !.enabled.line_color_btn = TRUE]
      [] OTHER -> [w EXCEPT !.raised = TRUE]

(***************************************************************************)
(* update_slice (lines 837-852)                                            *)
(***************************************************************************)
update_slice(w) ==
    CASE w.slice_state = 0 ->
           [w EXCEPT !.visible.x_slice_widget = FALSE,
                     !.visible.y_slice_widget = FALSE,
                     !.enabled.line_color_btn = FALSE]
      [] w.slice_state = 1 ->
           [w EXCEPT !.visible.x_slice_widget = TRUE,
                     !.visible.y_slice_widget = FALSE,
                     !.enabled.line_color_btn = TRUE]
      [] w.slice_state = 2 ->
           [w EXCEPT !.visible.x_slice_widget = FALSE,
                     !.visible.y_slice_widget = TRUE,
                     !.enabled.line_color_btn = TRUE]
      [] OTHER -> [w EXCEPT !.raised = TRUE]     \* ValueError

(***************************************************************************)
(* The reductions of subtract_background's global branch (lines 887-893):  *)
(* funcs[idx](cells) for idx = 0 .. 4, cells being all cells of the array. *)
(***************************************************************************)
\* funcs with np.nanmin and np.nanmax in each other's place
global_funcs_swapped(idx, cells) ==
    CASE idx = 0 -> Fin(0)
      [] idx = 1 -> nanmax(cells)
      [] idx = 2 -> nanmin(cells)
      [] idx = 3 -> nanmean(cells)
      [] OTHER   -> nanmedian(cells)

global_funcs(idx, cells) ==
    CASE idx = 0 -> Fin(0)
      [] idx = 1 -> nanmin(cells)
      [] idx = 2 -> nanmax(cells)
      [] idx = 3 -> nanmean(cells)
      [] OTHER   -> nanmedian(cells)

\* z - r for a 2D array z and a scalar r
Minus2Scalar(z, r) ==
    [i \in 1..NRows(z) |-> [j \in 1..NCols(z) |-> Sub(z[i][j], r)]]
\* z - p for two 2D arrays of one shape
Minus2(z, p) ==
    [i \in 1..NRows(z) |-> [j \in 1..NCols(z) |-> Sub(z[i][j], p[i][j])]]

(***************************************************************************)
(* plot_arrays, and the handlers it can re-enter through the stateChanged  *)
(* signal of the line-by-line box: update_line_by_line, replot and         *)
(* subtract_background.  A handler that a raised exception has left does   *)
(* nothing more: its callers return at once (w.raised).                    *)
(***************************************************************************)
\* The end of a slot that Qt called while it emitted a signal: an exception
\* the slot raised is reported there and does not reach the emitter.
Slot(w) == [w EXCEPT !.reported = @ \/ w.raised, !.raised = FALSE]

RECURSIVE plot_arrays(_, _, _, _)
RECURSIVE line_backsub_btn_setChecked(_, _)
RECURSIVE update_line_by_line(_)
RECURSIVE replot(_)
RECURSIVE subtract_background(_, _)

\* a plot_arrays that leaves the matplotlib widgets as they are
plot_arrays_clear_qt_only(w) ==
    [w EXCEPT
       !.depth = @ + 1,
       !.nested = IF w.depth + 1 > @ THEN w.depth + 1 ELSE @,
       !.slider = NoSlider,
       !.visible.pyqt_splitter = FALSE,
       !.visible.pyqt_plot = FALSE,
       !.visible.pyqt_imview = FALSE]

\* plot_arrays, lines 340-352: fig.clear() removes the slider, every plot
\* widget is hidden
plot_arrays_clear(w) ==
    [w EXCEPT
       !.depth = @ + 1,
       !.nested = IF w.depth + 1 > @ THEN w.depth + 1 ELSE @,
       !.slider = NoSlider,
       !.visible.toolbar = FALSE,
       !.visible.canvas = FALSE,
       !.visible.pyqt_splitter = FALSE,
       !.visible.pyqt_plot = FALSE,
       !.visible.pyqt_imview = FALSE]

\* plot_arrays, lines 354-358, after setChecked(False) has returned
plot_arrays_1d(w, xs, ys) ==
    plot_1d([w EXCEPT
               !.enabled.line_backsub_btn = FALSE,
               !.visible.x_slice_widget = FALSE,
               !.visible.y_slice_widget = FALSE,
               !.plotted = [xs |-> xs, ys |-> ys, zs |-> None]],
            xs, ys)

\* plot_arrays, lines 360-373
plot_arrays_2d(w, xs, ys, zs) ==
    plot_2d([w EXCEPT
               !.enabled.line_backsub_btn = TRUE,
               !.visible.x_slice_widget =
                   IF w.slice_state = 0 THEN @ ELSE w.slice_state = 1,
               !.visible.y_slice_widget =
                   IF w.slice_state = 0 THEN @ ELSE w.slice_state = 2,
               !.plotted = [xs |-> xs, ys |-> ys, zs |-> zs]],
            xs, ys, zs, w.rotate_slider,
            CASE w.slice_state = 0 -> ""
              [] w.slice_state = 1 -> "x"
              [] OTHER -> "y")

\* the return of a plot_arrays call
plot_arrays_return(w) == [w EXCEPT !.depth = @ - 1]

\* plot_arrays (lines 332-375)
plot_arrays(w, xs, ys, zs) ==
    IF w.depth >= MaxNest THEN [w EXCEPT !.raised = TRUE]   \* RecursionError
    ELSE IF zs = None
    THEN plot_arrays_return(
           plot_arrays_1d(line_backsub_btn_setChecked(plot_arrays_clear(w), FALSE),
                          xs, ys))
    ELSE plot_arrays_return(plot_arrays_2d(plot_arrays_clear(w), xs, ys, zs))

\* a setChecked that emits stateChanged also when the state does not change
line_backsub_btn_setChecked_always(w, checked) ==
    Slot(update_line_by_line([w EXCEPT !.line_backsub_btn = checked]))

\* QCheckBox.setChecked on the line-by-line box: Qt emits stateChanged, which
\* is connected to update_line_by_line (line 232), when the state changes.
line_backsub_btn_setChecked(w, checked) ==
    IF w.line_backsub_btn = checked THEN w
    ELSE Slot(update_line_by_line([w EXCEPT !.line_backsub_btn = checked]))

\* an update_line_by_line that leaves the 'y' button as it is
update_line_by_line_x_only(w) ==
    replot([w EXCEPT !.enabled.x_line_backsub_btn = w.line_backsub_btn])

\* update_line_by_line (lines 854-858)
update_line_by_line(w) ==
    replot([w EXCEPT !.enabled.x_line_backsub_btn = w.line_backsub_btn,
                     !.enabled.y_line_backsub_btn = w.line_backsub_btn])

\* The end of `try: item.array.ito(field.text())  except: field.setText(
\* str(item.array.units))' for the array `which' of current_data and the unit
\* field `field', c being what the ito call made.  ito converts in place:
\* the array of self.arrays that set_plot_from_name took the item from is
\* the same object (lines 1068-1089 make a new array only to flip z).
replot_converted(w, which, field, c) ==
    LET text == IF c.raised THEN c.item.units ELSE w[field]
        flipped == w.dataset.x_dir = "neg" \/ w.dataset.y_dir = "neg"
        is2d == w.current_data.zs # None
        w1 == [w EXCEPT ![field] = text, !.current_data[which] = c.item]
    IN  CASE which = "xs" -> [w1 EXCEPT !.arrays.xs = c.item]
          [] which = "ys" /\ is2d -> [w1 EXCEPT !.arrays.ys = c.item]
          [] which = "ys" /\ ~is2d -> [w1 EXCEPT !.arrays.zs = c.item]
          [] OTHER -> [w1 EXCEPT !.arrays.zs = IF flipped THEN @ ELSE c.item]

\* replot, lines 799-803
replot_xs(w) ==
    IF w.xy_units_box
    THEN replot_converted(w, "xs", "xy_units",
                          ito(w.current_data.xs, w.xy_units, FALSE))
    ELSE w

\* replot, lines 812-816 (2D only)
replot_ys(w) ==
    IF w.current_data.zs # None /\ w.xy_units_box
    THEN replot_converted(w, "ys", "xy_units",
                          ito(w.current_data.ys, w.xy_units, FALSE))
    ELSE w

\* replot, lines 806-809 (1D: ys) and 817-820 (2D: zs)
replot_zs(w) ==
    IF w.current_data.zs = None
    THEN replot_converted(w, "ys", "units", ito(w.current_data.ys, w.units, FALSE))
    ELSE replot_converted(w, "zs", "units", ito(w.current_data.zs, w.units, TRUE))

\* a replot that clears the plot before it looks at the data
replot_clears(w) ==
    IF w.current_data = NoData THEN plot_arrays_clear(w)
    ELSE subtract_background(replot_zs(replot_ys(replot_xs(w))), -1)

\* replot (lines 793-824)
replot(w) ==
    IF w.current_data = NoData THEN w
    ELSE subtract_background(replot_zs(replot_ys(replot_xs(w))), -1)

\* `idx = idx or self.backsub_radio.checkedId()' (line 866); idx_arg = -1
\* stands for None
backsub_idx(w, idx_arg) ==
    IF idx_arg \in {-1, 0} THEN w.backsub_radio ELSE idx_arg

\* a line-by-line branch that hands over the array without its unit
backsub_lines_unitless(w, r) ==
    [raised |-> r.raised, arg |-> r.arg, ys |-> w.current_data.ys,
     zs |-> DataItem(w.current_data.zs.name, r.ret, "")]

\* What subtract_background computes before it plots (lines 868-905):
\* [raised, arg, ys, zs], where arg is the array of current_data["zs"] after
\* the computation and ys, zs are the items to plot.
\* lines 873-884: line by line
backsub_lines(w, r) ==
    [raised |-> r.raised, arg |-> r.arg, ys |-> w.current_data.ys,
     zs |-> DataItem(w.current_data.zs.name, r.ret, w.current_data.zs.units)]
\* lines 887-897: 1D, f is funcs[idx](y)
backsub_curve(w, f) ==
    [raised |-> f.raised, arg |-> w.current_data.zs.array,
     ys |-> DataItem(w.current_data.ys.name,
                     IF f.raised THEN <<>> ELSE Minus(w.current_data.ys.array, f),
                     w.current_data.ys.units),
     zs |-> None]
\* lines 899-907: 2D, z is z - funcs[idx](z)
backsub_image(w, z) ==
    [raised |-> FALSE, arg |-> w.current_data.zs.array, ys |-> w.current_data.ys,
     zs |-> DataItem(w.current_data.zs.name, z, w.current_data.zs.units)]

backsub(w, idx) ==
    IF w.line_backsub_btn /\ w.current_data.zs # None
    THEN backsub_lines(w,
           subtract_line_by_line(w.current_data.zs.array, w.line_backsub_radio,
                                 [idx |-> idx, x |-> w.current_data.xs.array]))
    ELSE IF w.current_data.zs = None
    THEN backsub_curve(w,
           IF idx = 5 THEN fit_line(w.current_data.xs.array, w.current_data.ys.array)
           ELSE Scalar(global_funcs(idx, w.current_data.ys.array)))
    ELSE backsub_image(w,
           IF idx = 5
           THEN Minus2(w.current_data.zs.array,
                       fit_plane(w.current_data.xs.array, w.current_data.ys.array,
                                 w.current_data.zs.array))
           ELSE Minus2Scalar(w.current_data.zs.array,
                             global_funcs(idx, Flatten(w.current_data.zs.array))))

\* line 907, r being what was computed
subtract_background_plot(w, r) ==
    IF r.raised
    THEN [w EXCEPT !.current_data.zs.array = r.arg, !.raised = TRUE]
    ELSE plot_arrays([w EXCEPT !.current_data.zs.array = r.arg],
                     w.current_data.xs, r.ys, r.zs)

\* subtract_background (lines 860-907)
subtract_background(w, idx_arg) ==
    IF w.current_data = NoData THEN w
    ELSE subtract_background_plot(w, backsub(w, backsub_idx(w, idx_arg)))


(***************************************************************************)
(* set_slice (lines 826-835); idx = -1 stands for None                     *)
(***************************************************************************)
\* lines 834-835
set_slice_replot(w, do_replot) ==
    IF w.raised \/ ~do_replot THEN w ELSE replot(w)

set_slice(w, idx_arg, do_replot) ==
    set_slice_replot(
      update_slice([w EXCEPT !.slice_state =
                       IF idx_arg = -1 THEN w.slice_radio ELSE idx_arg]),
      do_replot)

(***************************************************************************)
(* DataSetPlotter (lines 972-1119).  self.arrays is kept as the record     *)
(* [xs, ys, zs]: the arrays of the independent variables, and the array    *)
(* the selector names (a dataset of the model has one).                    *)
(***************************************************************************)
\* np.fliplr / np.flipud
fliplr(z) == [i \in 1..NRows(z) |-> [j \in 1..NCols(z) |-> z[i][NCols(z) + 1 - j]]]
flipud(z) == [i \in 1..NRows(z) |-> z[NRows(z) + 1 - i]]

\* set_plot_from_name, lines 1068-1089: the item ys (1D) or zs (2D) before
\* its unit conversion
set_plot_item(w, name) ==
    LET z == w.arrays.zs.array
        flip_x(a) == IF w.dataset.x_dir = "neg" THEN fliplr(a) ELSE a
        flip_y(a) == IF w.dataset.y_dir = "neg" THEN flipud(a) ELSE a
    IN  DataItem(name,
                 IF Len(w.indep_vars) = 2 THEN flip_y(flip_x(z)) ELSE z,
                 w.arrays.zs.units)

\* set_plot_from_name, lines 1071-1102 without the last, c being what the
\* ito call made of the item
set_plot_converted(w, c) ==
    LET is2d == Len(w.indep_vars) = 2
        flipped == w.dataset.x_dir = "neg" \/ w.dataset.y_dir = "neg"
    IN  [w EXCEPT !.units = IF c.raised THEN c.item.units ELSE @,
                  !.enabled.units = TRUE,
                  !.arrays.zs = IF is2d /\ flipped THEN @ ELSE c.item,
                  !.current_data = [xs |-> w.arrays.xs,
                                    ys |-> IF is2d THEN w.arrays.ys ELSE c.item,
                                    zs |-> IF is2d THEN c.item ELSE None]]

\* set_plot_from_name (lines 1060-1102)
set_plot_from_name(w, name) ==
    IF w.dataset = NoDataset THEN [w EXCEPT !.raised = TRUE]  \* None.metadata
    ELSE subtract_background(
           set_plot_converted(w, ito(set_plot_item(w, name), w.units,
                                     Len(w.indep_vars) = 2)),
           -1)

\* set_plot (lines 1050-1058), for the index of the selector's current item
set_plot(w) ==
    IF w.selector = "" THEN w ELSE set_plot_from_name(w, w.selector)

\* scan_to_arrays / td_to_arrays of ..utils: the arrays of a dataset as
\* quantities.  The coordinates come in volt, or in the length unit asked
\* for (an exception when the text names no length unit); the measured
\* array comes in volt.
to_arrays(dataset, xy_unit) ==
    LET u == IF xy_unit = "" THEN "volt" ELSE ParseUnit(xy_unit)
        is2d == dataset.location = "_scan_"
    IN  IF u = "" \/ (xy_unit # "" /\ UnitDim(u) # "length")
        THEN [raised |-> TRUE, arrays |-> NoData]
        ELSE [raised |-> FALSE,
              arrays |-> [xs |-> DataItem(IF is2d THEN "x" ELSE "height",
                                          dataset.x, u),
                          ys |-> IF is2d THEN DataItem("y", dataset.y, u)
                                 ELSE None,
                          zs |-> DataItem(IF is2d THEN "MAG" ELSE "CAP",
                                          dataset.z, "volt")]]

\* get_arrays, lines 1011-1037: a is what the first scan_to_arrays or
\* td_to_arrays call made; the selector is cleared
get_arrays_read(w, a) ==
    [w EXCEPT
       !.arrays = IF a.raised THEN to_arrays(w.dataset, "um").arrays ELSE a.arrays,
       !.xy_units = IF a.raised THEN "um" ELSE @,
       !.indep_vars = IF w.dataset.location = "_scan_"
                      THEN <<"x", "y">> ELSE <<"height">>,
       !.selector = ""]

\* get_arrays, lines 1038-1040: selector.addItem(name) on the cleared
\* selector makes the item the current one, and currentIndexChanged calls
\* set_plot (line 985)
get_arrays_addItem(w) ==
    Slot(set_plot([w EXCEPT !.selector = w.arrays.zs.name]))

\* get_arrays, lines 1041-1048, old being the object when get_arrays began
get_arrays_select(old, w) ==
    IF w.raised THEN w
    ELSE IF old.selector = w.selector /\ old.units \notin {"Array unit"}
    THEN [w EXCEPT !.units = old.units]
    ELSE w

\* get_arrays (lines 1007-1048)
get_arrays(w) ==
    IF w.dataset = NoDataset THEN w
    ELSE get_arrays_select(w,
           set_plot(
             get_arrays_addItem(
               get_arrays_read(w,
                 to_arrays(w.dataset, IF w.xy_units_box THEN w.xy_units ELSE "")))))

\* an update that leaves the background button as it is
update_plot_keeps_button(w) ==
    IF w.raised THEN w
    ELSE set_plot_from_name(w, w.selector)

\* update, lines 1118-1119
update_plot(w) ==
    IF w.raised THEN w
    ELSE set_plot_from_name([w EXCEPT !.backsub_radio = 0], w.selector)

\* update (lines 1114-1119); dataset = NoDataset stands for None
update(w, dataset) ==
    update_plot(get_arrays(
                  [w EXCEPT !.dataset = IF dataset = NoDataset THEN @ ELSE dataset]))

\* update_xy_units (lines 1104-1112), after the box changed its state
update_xy_units(w) ==
    update([w EXCEPT !.xy_units = IF w.xy_units_box THEN "um" ELSE "Length unit",
                     !.enabled.xy_units = w.xy_units_box],
           NoDataset)


(***************************************************************************)
(* Export (lines 909-969).  path is what the file dialog returns ("" when  *)
(* it is cancelled); fails tells that writing the file raises.             *)
(***************************************************************************)
\* savemat / h5py.File + set_h5_attrs / pickle.dump, each inside try/except
export_data(w, path, fails) ==
    IF DOMAIN w.exp_data = {} THEN w
    ELSE IF path \in {"data.mat", "data.h5", "data.pickle"}
    THEN (IF fails THEN w
          ELSE [w EXCEPT !.written = CASE path = "data.mat" -> "mat"
                                       [] path = "data.h5" -> "h5"
                                       [] OTHER -> "pickle"])
    ELSE w

\* self.fig.savefig(path, dpi=dpi): no try/except; savefig raises on an
\* empty path and when the file cannot be written
export_mpl(w, path, fails) ==
    IF w.dataset = NoDataset THEN w
    ELSE IF path = "" \/ fails THEN [w EXCEPT !.raised = TRUE]
    ELSE [w EXCEPT !.written = "fig.png"]

\* exporter.export(path) of the plot item when pyqt_plot is visible, of the
\* scene of the image view otherwise: no try/except either
export_qt(w, path, fails) ==
    IF w.dataset = NoDataset THEN w
    ELSE IF fails THEN [w EXCEPT !.raised = TRUE]
    ELSE [w EXCEPT !.written = IF path = "" THEN ""
                                ELSE IF w.visible.pyqt_plot THEN "plot.png"
                                ELSE "scene.png"]

(***************************************************************************)
(* Inputs.                                                                 *)
(***************************************************************************)
\* the coordinates of n points of a scan
Coords(n) == [k \in 1..n |-> Fin(k - 1)]

\* A measured 2D array of shape (n, m): the finite pattern (a, b) with one
\* defect: "nan" or "inf" puts that value in cell (di, dj), "row" leaves
\* the last row nan (a scan that was stopped), "" is no defect.
Measured(n, m, a, b, defect, di, dj) ==
    [i \in 1..n |-> [j \in 1..m |->
        IF defect = "nan" /\ i = di /\ j = dj THEN NaN
        ELSE IF defect = "inf" /\ i = di /\ j = dj THEN PInf
        ELSE IF defect = "row" /\ i = n THEN NaN
        ELSE Fin((a * i + b * j + i * j) % (MaxVal + 1))]]

ScanDataset(z, x_dir, y_dir) ==
    [location |-> "_scan_", x_dir |-> x_dir, y_dir |-> y_dir,
     x |-> Coords(NCols(z)), y |-> Coords(NRows(z)), z |-> z]

TdDataset(z) ==
    [location |-> "_td_cap_", x_dir |-> "pos", y_dir |-> "pos",
     x |-> Coords(Len(z)), y |-> <<>>, z |-> z]

\* The datasets a user can load: scans of MaxRows x MaxCols points and
\* touchdowns of MaxCols points, clean or with one defect.
Datasets ==
    { ScanDataset(Measured(MaxRows, MaxCols, 0, 0, d[1], d[2], d[3]), "pos", "pos") :
        d \in { <<"", 1, 1>>, <<"nan", 1, 1>>, <<"inf", MaxRows, MaxCols>>,
                <<"row", 1, 1>> } }
    \cup { ScanDataset(Measured(MaxRows, MaxCols, 0, 0, "", 1, 1), "neg", "pos") }
    \cup { TdDataset(Measured(MaxRows, MaxCols, 0, 0, d[1], d[2], d[3])[1]) :
        d \in { <<"", 1, 1>>, <<"nan", 1, 1>>, <<"inf", 1, MaxCols>> } }

\* the datasets without a defect
CleanDatasets ==
    { ScanDataset(Measured(MaxRows, MaxCols, 0, 0, "", 1, 1), "pos", "pos"),
      TdDataset(Measured(MaxRows, MaxCols, 0, 0, "", 1, 1)[1]) }

\* The 2D arrays the functions of the module are called with: every shape
\* up to MaxRows x MaxCols, every pattern, clean or with one defect.
Defects(n, m) ==
    { <<"", 1, 1>>, <<"row", 1, 1>> }
    \cup { <<k, i, j>> : k \in {"nan", "inf"}, i \in 1..n, j \in 1..m }
Arrays2D ==
    UNION { { Measured(n, m, a, b, d[1], d[2], d[3]) :
                a \in 0..MaxVal, b \in 0..MaxVal, d \in Defects(n, m) } :
            n \in 2..MaxRows, m \in 2..MaxCols }

(***************************************************************************)
(* State and events.                                                       *)
(*   plotter   the DataSetPlotter object                                   *)
(*   call      a call of one of the module's functions with its result     *)
(*             (specification SpecMath)                                    *)
(***************************************************************************)
VARIABLES plotter, call

vars == <<plotter, call>>

NoCall == [op |-> "", zdata |-> <<>>, axis |-> 0, idx |-> 0, result |-> <<>>]

\* A handler runs from the event to its end: the state before it and after
\* it are states of the model, nothing in between is.
Begin(w, view) ==
    [w EXCEPT !.raised = FALSE, !.reported = FALSE, !.written = "",
              !.depth = 0, !.nested = 0, !.view = view]
End(w) ==
    [w EXCEPT !.raised = w.raised \/ w.reported, !.reported = FALSE,
              !.depth = 0, !.view = <<0, 0>>]

\* The points the crosshair lines of the image view can be on when an image
\* is set (item coordinates); one point when the event sets no image.
Views(sets_image) ==
    IF sets_image THEN (0..(MaxCols - 1)) \X (0..(MaxRows - 1)) ELSE {<<0, 0>>}

Is2D(w) == w.current_data.zs # None
\* the event draws a 2D array with pyqtgraph
SetsImage(w) == get_opt(w, "pyqtgraph") /\ Is2D(w)

\* what the user can type into a unit field
UnitTexts == {"mV", "um", "foo"}
\* what the file dialog of an export can return
Paths == {"", "data.mat", "data.h5", "data.pickle", "data.png"}

Init == plotter = NewPlotter /\ call = NoCall

\* DataSetPlotter.update(dataset): a dataset is loaded
Update ==
    \E d \in Datasets :
      \E view \in Views(get_opt(plotter, "pyqtgraph") /\ d.location = "_scan_") :
        /\ plotter' = End(update(Begin(plotter, view), d))
        /\ UNCHANGED call

\* DataSetPlotter.update(dataset): a dataset without a defect is loaded
UpdateClean ==
    \E d \in CleanDatasets :
      \E view \in Views(get_opt(plotter, "pyqtgraph") /\ d.location = "_scan_") :
        /\ plotter' = End(update(Begin(plotter, view), d))
        /\ UNCHANGED call

\* a background-subtraction radio button is clicked (line 217)
BacksubClicked ==
    \E idx \in 0..5 :
      \E view \in Views(SetsImage(plotter)) :
        /\ plotter' = End(replot([Begin(plotter, view) EXCEPT !.backsub_radio = idx]))
        /\ UNCHANGED call

\* the line-by-line box is clicked (line 232)
LineByLineToggled ==
    /\ plotter.enabled.line_backsub_btn
    /\ \E view \in Views(SetsImage(plotter)) :
         plotter' = End(line_backsub_btn_setChecked(Begin(plotter, view),
                                                    ~plotter.line_backsub_btn))
    /\ UNCHANGED call

\* the x or y radio button of line-by-line is clicked (line 233)
LineAxisClicked ==
    \E axis \in 0..1 :
      /\ IF axis = 0 THEN plotter.enabled.x_line_backsub_btn
         ELSE plotter.enabled.y_line_backsub_btn
      /\ \E view \in Views(SetsImage(plotter)) :
           plotter' = End(replot([Begin(plotter, view) EXCEPT
                                    !.line_backsub_radio = axis]))
      /\ UNCHANGED call

\* the 'pyqtgraph' option is clicked (line 277)
PyqtgraphToggled ==
    \E view \in Views(~get_opt(plotter, "pyqtgraph") /\ Is2D(plotter)) :
      /\ plotter' = End(replot([Begin(plotter, view) EXCEPT
                                  !.opt_checks.pyqtgraph = ~@]))
      /\ UNCHANGED call

\* the 'histogram' option is clicked: stateChanged calls replot (line 277),
\* then the slot of lines 298-300
HistogramToggled ==
    \E view \in Views(SetsImage(plotter)) :
      /\ plotter' =
           End([Slot(replot([Begin(plotter, view) EXCEPT
                               !.opt_checks.histogram = ~@]))
                  EXCEPT !.enabled.bins_box = ~get_opt(plotter, "histogram")])
      /\ UNCHANGED call

\* a slice radio button is clicked (line 260)
SliceClicked ==
    \E idx \in 0..2 :
      \E view \in Views(SetsImage(plotter)) :
        /\ plotter' = End(set_slice([Begin(plotter, view) EXCEPT !.slice_radio = idx],
                                    idx, TRUE))
        /\ UNCHANGED call

\* the rotation angle is changed (line 242)
RotateChanged ==
    \E angle \in Angles \ {plotter.rotate_slider} :
      \E view \in Views(SetsImage(plotter)) :
        /\ plotter' = End(replot([Begin(plotter, view) EXCEPT !.rotate_slider = angle]))
        /\ UNCHANGED call

\* the rotation angle is changed to a multiple of a quarter turn (line 242)
RotateQuarter ==
    \E angle \in RightAngles \ {plotter.rotate_slider} :
      \E view \in Views(SetsImage(plotter)) :
        /\ plotter' = End(replot([Begin(plotter, view) EXCEPT !.rotate_slider = angle]))
        /\ UNCHANGED call

\* another control that is connected to replot is used: the grid option, the
\* bins box, 'color by value' (lines 257, 277, 284)
ReplotRequested ==
    \E view \in Views(SetsImage(plotter)) :
      /\ plotter' = End(replot(Begin(plotter, view)))
      /\ UNCHANGED call

\* the slice slider of the matplotlib figure is moved (line 791)
SliderMoved ==
    /\ plotter.slider.alive
    /\ plotter.visible.canvas
    /\ \E i \in 0..plotter.slider.valmax :
         /\ i # plotter.slider.val
         /\ plotter' = End(plot_2d_mpl_update(Begin(plotter, <<0, 0>>), i))
    /\ UNCHANGED call

\* the crosshair of the image view is moved (lines 1332-1337)
CrosshairMoved ==
    /\ plotter.visible.pyqt_imview
    /\ plotter.pyqt_imview.image # <<>>
    /\ \E view \in Views(TRUE) :
         plotter' = End([Begin(plotter, <<0, 0>>) EXCEPT !.pyqt_imview =
                            imview_set_position(@, view[1], view[2])])
    /\ UNCHANGED call

\* return is pressed in the field of the array unit (line 988)
UnitsReturnPressed ==
    /\ plotter.enabled.units
    /\ \E text \in UnitTexts :
         \E view \in Views(SetsImage(plotter)) :
           plotter' = End(replot([Begin(plotter, view) EXCEPT !.units = text]))
    /\ UNCHANGED call

\* return is pressed in the field of the length unit (line 1005)
XYUnitsReturnPressed ==
    /\ plotter.enabled.xy_units
    /\ \E text \in UnitTexts :
         \E view \in Views(SetsImage(plotter)) :
           plotter' = End(replot([Begin(plotter, view) EXCEPT !.xy_units = text]))
    /\ UNCHANGED call

\* the 'real x-y units' box is clicked (line 1004)
XYUnitsBoxToggled ==
    \E view \in Views(SetsImage(plotter)) :
      /\ plotter' = End(update_xy_units([Begin(plotter, view) EXCEPT
                                           !.xy_units_box = ~@]))
      /\ UNCHANGED call

\* export_data, export_mpl and export_qt are called (by the main window)
ExportData ==
    \E path \in Paths, fails \in BOOLEAN :
      /\ plotter' = End(export_data(Begin(plotter, <<0, 0>>), path, fails))
      /\ UNCHANGED call
ExportMpl ==
    \E path \in {"", "data.png"}, fails \in BOOLEAN :
      /\ plotter' = End(export_mpl(Begin(plotter, <<0, 0>>), path, fails))
      /\ UNCHANGED call
ExportQt ==
    \E path \in {"", "data.png"}, fails \in BOOLEAN :
      /\ plotter' = End(export_qt(Begin(plotter, <<0, 0>>), path, fails))
      /\ UNCHANGED call

Next ==
    \/ Update
    \/ BacksubClicked
    \/ LineByLineToggled
    \/ LineAxisClicked
    \/ PyqtgraphToggled
    \/ HistogramToggled
    \/ SliceClicked
    \/ RotateChanged
    \/ ReplotRequested
    \/ SliderMoved
    \/ CrosshairMoved
    \/ UnitsReturnPressed
    \/ XYUnitsReturnPressed
    \/ XYUnitsBoxToggled
    \/ ExportData
    \/ ExportMpl
    \/ ExportQt

\* Every run of the program.
Spec == Init /\ [][Next]_vars

(***************************************************************************)
(* The runs of the program in which the user works with one group of its   *)
(* controls; each is checked exhaustively.                                 *)
(***************************************************************************)
\* background subtraction
NextBacksub ==
    \/ Update
    \/ BacksubClicked
    \/ LineByLineToggled
    \/ LineAxisClicked
SpecBacksub == Init /\ [][NextBacksub]_vars

\* slices, rotation and the two plotting backends
NextView ==
    \/ Update
    \/ PyqtgraphToggled
    \/ SliceClicked
    \/ RotateQuarter
    \/ SliderMoved
    \/ CrosshairMoved
SpecView == Init /\ [][NextView]_vars


\* units, with background subtraction, of the datasets without a defect
NextUnits ==
    \/ UpdateClean
    \/ BacksubClicked
    \/ UnitsReturnPressed
    \/ XYUnitsReturnPressed
    \/ XYUnitsBoxToggled
    \/ LineByLineToggled
    \/ LineAxisClicked
SpecUnits == Init /\ [][NextUnits]_vars

\* export
NextExport ==
    \/ Update
    \/ PyqtgraphToggled
    \/ HistogramToggled
    \/ ExportData
    \/ ExportMpl
    \/ ExportQt
SpecExport == Init /\ [][NextExport]_vars

(***************************************************************************)
(* The functions of the module, called on their own: one call from each    *)
(* initial state, `call' keeps the arguments and the result.               *)
(***************************************************************************)
InitMath ==
    /\ plotter = NewPlotter
    /\ \E z \in Arrays2D, axis \in 0..1, idx \in 0..5 :
         call = [NoCall EXCEPT !.zdata = z, !.axis = axis, !.idx = idx]

\* the callable subtract_background passes for idx: funcs[idx], its
\* 'linear' lambda holding the x coordinates of the scan
Func(idx, z) == [idx |-> idx, x |-> Coords(NCols(z))]

\* subtract_line_by_line(zdata, axis, funcs[idx])
CallSubtractLineByLine ==
    /\ call.op = ""
    /\ call' = [call EXCEPT
                  !.op = "subtract_line_by_line",
                  !.result = subtract_line_by_line(call.zdata, call.axis,
                                                   Func(call.idx, call.zdata))]
    /\ UNCHANGED plotter

\* fit_line(x, y) for a row y of the array
CallFitLine ==
    /\ call.op = ""
    /\ call.axis = 0 /\ call.idx = 0
    /\ \E i \in 1..NRows(call.zdata) :
         call' = [call EXCEPT
                    !.op = "fit_line",
                    !.axis = i,
                    !.result = fit_line(Coords(NCols(call.zdata)), call.zdata[i])]
    /\ UNCHANGED plotter

\* fit_plane(x, y, z)
CallFitPlane ==
    /\ call.op = ""
    /\ call.axis = 0 /\ call.idx = 0
    /\ call' = [call EXCEPT
                  !.op = "fit_plane",
                  !.result = fit_plane(Coords(NCols(call.zdata)),
                                       Coords(NRows(call.zdata)), call.zdata)]
    /\ UNCHANGED plotter

NextMath ==
    \/ CallSubtractLineByLine
    \/ CallFitLine
    \/ CallFitPlane
SpecMath == InitMath /\ [][NextMath]_vars

(***************************************************************************)
(* Properties of the functions of the module (SpecMath).                   *)
(***************************************************************************)
\* C2: subtract_line_by_line applies func line by line: for axis 0 every
\* row of the result is that row of the input minus func of that row, for
\* any other axis every column of the result is that column of the input
\* minus func of that column; no other line of the input has a part in it.
C2_LineByLinePerLine ==
    (call.op = "subtract_line_by_line" /\ ~call.result.raised) =>
        LET z == call.zdata
            out == call.result.ret
            f == Func(call.idx, call.zdata)
        IN  IF call.axis = 0
            THEN \A i \in 1..NRows(z) : out[i] = Minus(z[i], line_funcs(f, z[i]))
            ELSE \A j \in 1..NCols(z) :
                   Column(out, j) = Minus(Column(z, j), line_funcs(f, Column(z, j)))

\* a call by columns that returned an array with other cells than its input
C2_Witness ==
    /\ call.op = "subtract_line_by_line"
    /\ ~call.result.raised
    /\ call.axis = 1
    /\ call.idx = 3
    /\ \E j \in 1..NCols(call.zdata) :
         Column(call.result.ret, j) # Column(call.zdata, j)

\* C3: subtract_line_by_line returns a copy: the array passed as zdata has
\* the cells after the call it had before, and the array returned has the
\* shape of the input.
C3_ReturnsCopy ==
    call.op = "subtract_line_by_line" =>
        /\ call.result.arg = call.zdata
        /\ ~call.result.raised =>
             /\ NRows(call.result.ret) = NRows(call.zdata)
             /\ \A i \in 1..NRows(call.zdata) :
                  Len(call.result.ret[i]) = NCols(call.zdata)

\* a call that subtracted something from a cell
C3_Witness ==
    /\ call.op = "subtract_line_by_line"
    /\ ~call.result.raised
    /\ call.result.ret # call.zdata
    /\ call.result.arg = call.zdata

\* C6: the best-fit line and the best-fit plane ignore the non-finite
\* values: the background they return is finite at every finite cell of
\* the input.
C6_FitsIgnoreNonFinite ==
    /\ (call.op = "fit_line" /\ ~call.result.raised) =>
          \A k \in 1..NCols(call.zdata) :
             isfinite(call.zdata[call.axis][k]) => isfinite(call.result.arr[k])
    /\ call.op = "fit_plane" =>
          \A i \in 1..NRows(call.zdata), j \in 1..NCols(call.zdata) :
             isfinite(call.zdata[i][j]) => isfinite(call.result[i][j])

(***************************************************************************)
(* Properties of background subtraction (SpecBacksub).                     *)
(***************************************************************************)
\* the value the reduction idx (0 .. 4: none, min, max, mean, median) has on
\* the cells
Reduction(idx, cells) ==
    CASE idx = 0 -> Fin(0)
      [] idx = 1 -> nanmin(cells)
      [] idx = 2 -> nanmax(cells)
      [] idx = 3 -> nanmean(cells)
      [] OTHER   -> nanmedian(cells)

FiniteCells(cells) == SelectSeq(cells, isfinite)
NotNaNCells(cells) == SelectSeq(cells, LAMBDA c : ~isnan(c))
\* the cells a reduction is computed over
Kept(over, cells) ==
    IF over = "finite" THEN FiniteCells(cells) ELSE NotNaNCells(cells)

\* With line-by-line off and the reduction idx selected, the plot shows xs
\* (and, for 2D data, ys) as they are and the ys (1D) or zs (2D) array with,
\* in every cell, the cell of the current data minus the one value
\* Reduction(idx, Kept(over, all cells)).
GlobalSubtracts(over) ==
    LET d == plotter.current_data
        p == plotter.plotted
        idx == plotter.backsub_radio
    IN  (d # NoData /\ ~plotter.line_backsub_btn /\ idx \in 0..4) =>
          /\ p.xs = d.xs
          /\ IF d.zs = None
             THEN /\ p.zs = None
                  /\ p.ys.array =
                       [k \in DOMAIN d.ys.array |->
                          Sub(d.ys.array[k],
                              Reduction(idx, Kept(over, d.ys.array)))]
             ELSE /\ p.ys = d.ys
                  /\ p.zs.array =
                       [i \in 1..NRows(d.zs.array) |->
                          [j \in 1..NCols(d.zs.array) |->
                             Sub(d.zs.array[i][j],
                                 Reduction(idx, Kept(over, Flatten(d.zs.array))))]]

\* C1: with line-by-line off, subtract_background plots the array with one
\* value subtracted from every cell: the selected reduction (none -> 0, min,
\* max, mean, median) of the cells that are not nan, an infinite cell
\* included; xs and the other axes are plotted as they are.
C1_GlobalSubtractsOverNotNaN == GlobalSubtracts("not nan")

\* a reduction other than none was subtracted from a 2D array that holds an
\* infinite cell
C1_Witness ==
    /\ plotter.current_data.zs # None
    /\ ~plotter.line_backsub_btn
    /\ plotter.backsub_radio = 2
    /\ \E i \in 1..MaxRows, j \in 1..MaxCols :
         plotter.current_data.zs.array[i][j] = PInf
    /\ plotter.plotted.zs.array # plotter.current_data.zs.array

\* C1 as claimed: the reduction is over the finite cells.
C1_GlobalSubtractsOverFinite == GlobalSubtracts("finite")

\* C10: the chain plot_arrays -> update_line_by_line -> replot ->
\* subtract_background -> plot_arrays nests at most once (two plot_arrays
\* calls are open at most), and where it nested, the outer plot_arrays has
\* completed the 1D plot with the line-by-line box unchecked.
C10_ChainNestsOnce ==
    /\ plotter.nested <= 2
    /\ plotter.nested = 2 =>
         /\ ~plotter.raised
         /\ ~plotter.line_backsub_btn
         /\ plotter.plotted.zs = None
         /\ plotter.plotted.ys = plotter.current_data.ys
         /\ plotter.visible.canvas
         /\ plotter.exp_data # NoExpData

\* 1D data was loaded while the line-by-line box was checked
C10_Witness ==
    /\ plotter.nested = 2
    /\ plotter.current_data.zs = None
    /\ ~plotter.enabled.x_line_backsub_btn

(***************************************************************************)
(* Properties of slices and rotation (SpecView).                           *)
(***************************************************************************)
\* C4: at rotation 0 the slice is a row or a column of the plotted z array.
\* matplotlib: with the slider at index i, the vector drawn and the vector
\* kept in exp_data["slice"] are row i (length M) for the x slice and column
\* i (length N) for the y slice.  pyqtgraph: the x slice widget shows the
\* row, the y slice widget the column, under the crosshair.
C4_SliceIsRowOrColumn ==
    LET z == plotter.plotted.zs.array
        name == plotter.plotted.zs.name
        s == plotter.slider
        v == plotter.pyqt_imview
    IN  /\ (s.alive /\ s.angle = 0) =>
             LET z0 == IF s.slice_state = "x" THEN z[s.val + 1]
                       ELSE Column(z, s.val + 1)
             IN  /\ s.line = z0
                 /\ plotter.exp_data["slice"][name].array = z0
                 /\ plotter.exp_data["slice"]["index"] = s.val
                 /\ Len(s.line) = IF s.slice_state = "x" THEN NCols(z) ELSE NRows(z)
        /\ (plotter.visible.pyqt_imview /\ plotter.rotate_slider = 0) =>
             /\ v.x_slice_widget_data = z[v.y_cross_index + 1]
             /\ v.y_slice_widget_data = Column(z, v.x_cross_index + 1)

\* the slider of an x slice was moved to the second row, which differs from
\* the first
C4_Witness ==
    /\ plotter.slider.alive
    /\ plotter.slider.angle = 0
    /\ plotter.slider.slice_state = "x"
    /\ plotter.slider.val = 1
    /\ plotter.slider.line # plotter.plotted.zs.array[1]

\* C5: rotating by 0 degrees is the identity: at angle 0 the array that
\* plot_2d_mpl keeps (exp_data) and the image that plot_2d_qt shows have the
\* shape and the cells of the plotted z array (the image is its transpose).
C5_RotationByZeroIsIdentity ==
    (plotter.plotted.zs # None /\ plotter.rotate_slider = 0) =>
        /\ plotter.visible.canvas =>
             plotter.exp_data[plotter.plotted.zs.name].array
               = plotter.plotted.zs.array
        /\ plotter.visible.pyqt_imview =>
             plotter.pyqt_imview.image = Transpose(plotter.plotted.zs.array)

\* an image with a nan cell is shown by pyqtgraph at angle 0
C5_Witness ==
    /\ plotter.plotted.zs # None
    /\ plotter.rotate_slider = 0
    /\ plotter.visible.pyqt_imview
    /\ \E i \in 1..MaxRows, j \in 1..MaxCols :
         isnan(plotter.plotted.zs.array[i][j])

\* C7: the slice vector that is plotted holds finite values only: the first
\* slice drawn by plot_2d_mpl, and the slice drawn by update.
C7_SliceVectorIsFinite ==
    plotter.slider.alive =>
        /\ AllFinite(plotter.slider.initial)
        /\ AllFinite(plotter.slider.line)

(***************************************************************************)
(* Properties of the unit fields (SpecUnits).                              *)
(***************************************************************************)
\* the plotted array of w: ys for 1D data, zs for 2D data
PlottedItem(w) ==
    IF w.current_data.zs = None THEN w.current_data.ys ELSE w.current_data.zs

\* C8: when the conversion to the unit typed by the user fails, the array
\* (or the axes) keep their cells and their native unit, the unit field
\* shows that native unit again, and the plot completes without raising:
\* for the array unit and the length unit typed before a replot, and for
\* the array unit in the field when set_plot_from_name takes a new array.
C8_ConversionFailureFallsBack ==
    [][ /\ \A text \in UnitTexts :
             ( /\ plotter.enabled.units
               /\ ito(PlottedItem(plotter), text, Is2D(plotter)).raised
               /\ plotter' = End(replot([Begin(plotter, <<0, 0>>) EXCEPT
                                           !.units = text])) )
             => /\ PlottedItem(plotter') = PlottedItem(plotter)
                /\ plotter'.units = PlottedItem(plotter).units
                /\ ~plotter'.raised
        /\ \A text \in UnitTexts :
             ( /\ plotter.enabled.xy_units
               /\ plotter.current_data # NoData
               /\ ito(plotter.current_data.xs, text, FALSE).raised
               /\ plotter' = End(replot([Begin(plotter, <<0, 0>>) EXCEPT
                                           !.xy_units = text])) )
             => /\ plotter'.current_data.xs = plotter.current_data.xs
                /\ plotter'.xy_units = plotter.current_data.xs.units
                /\ ~plotter'.raised
        /\ \A d \in CleanDatasets :
             ( /\ ParseUnit(plotter.units) \notin {"volt", "millivolt"}
               /\ plotter' = End(update(Begin(plotter, <<0, 0>>), d)) )
             => /\ PlottedItem(plotter').array = d.z
                /\ PlottedItem(plotter').units = "volt"
                /\ plotter'.units = "volt"
                /\ ~plotter'.raised
      ]_vars

(***************************************************************************)
(* Properties of export (SpecExport).                                      *)
(***************************************************************************)
\* C9: no export operation lets an error reach its caller when the file
\* cannot be written or the chosen path is empty, and exp_data is after the
\* call what it was before.
C9_ExportFailuresSwallowed ==
    [][ \A path \in Paths, fails \in BOOLEAN :
          ( /\ fails \/ path = ""
            /\ \/ plotter' = End(export_data(Begin(plotter, <<0, 0>>), path, fails))
               \/ plotter' = End(export_mpl(Begin(plotter, <<0, 0>>), path, fails))
               \/ plotter' = End(export_qt(Begin(plotter, <<0, 0>>), path, fails)) )
          => /\ ~plotter'.raised
             /\ plotter'.exp_data = plotter.exp_data
      ]_vars

(***************************************************************************)
(* The two 2D plotting methods, called on their own with what              *)
(* subtract_background hands to plot_arrays for an image and a global      *)
(* reduction (lines 899-907): one call from each initial state.  `call'    *)
(* keeps the loaded array (zdata), the reduction (idx), the rotation angle *)
(* (axis) and the widget after the call (result).                          *)
(***************************************************************************)
InitPlot2D ==
    /\ plotter = NewPlotter
    /\ \E z \in Arrays2D, idx \in 0..4 :
         call = [NoCall EXCEPT !.zdata = z, !.idx = idx]

\* zs as line 907 passes it: z - funcs[idx](z)
Handed(z, idx) ==
    DataItem("z", Minus2Scalar(z, global_funcs(idx, Flatten(z))), "V")

\* plot_2d_qt(xs, ys, zs, angle=...)
CallPlot2dQt ==
    /\ call.op = ""
    /\ \E angle \in Angles :
         call' = [call EXCEPT
                    !.op = "plot_2d_qt",
                    !.axis = angle,
                    !.result = plot_2d_qt(NewPlotter,
                                          DataItem("x", Coords(NCols(call.zdata)), "um"),
                                          DataItem("y", Coords(NRows(call.zdata)), "um"),
                                          Handed(call.zdata, call.idx), angle)]
    /\ UNCHANGED plotter

\* plot_2d_mpl(xs, ys, zs, angle=..., slice_state=...), which ends with
\* update(0) when a slice is shown
CallPlot2dMpl ==
    /\ call.op = ""
    /\ \E angle \in Angles, slice_state \in {"", "x", "y"} :
         call' = [call EXCEPT
                    !.op = "plot_2d_mpl",
                    !.axis = angle,
                    !.result = plot_2d_mpl(NewPlotter,
                                           DataItem("x", Coords(NCols(call.zdata)), "um"),
                                           DataItem("y", Coords(NRows(call.zdata)), "um"),
                                           Handed(call.zdata, call.idx), angle,
                                           slice_state)]
    /\ UNCHANGED plotter

NextPlot2D ==
    \/ CallPlot2dQt
    \/ CallPlot2dMpl
SpecPlot2D == InitPlot2D /\ [][NextPlot2D]_vars

(***************************************************************************)
(* Properties of the rotation of an image (SpecPlot2D).                    *)
(***************************************************************************)
\* the cells of the array handed to the plotting method
HandedCells == Flatten(Handed(call.zdata, call.idx).array)

\* The border cells of a rotated array are the cells IsBorder45 names when
\* the angle is 45 (no other angle of the model introduces any).
\* pyqtgraph: the image is rotate(z.T), every border cell of it is `fill'
QtBorderIs(fill) ==
    \A i, j \in 1..Side45(NCols(call.zdata), NRows(call.zdata)) :
       IsBorder45(NCols(call.zdata), NRows(call.zdata), i, j)
       => /\ call.result.pyqt_imview.image[i][j] = fill
          /\ call.result.exp_data["z"].array[i][j] = fill
\* matplotlib: exp_data holds rotate(z.T).T, the slice is a row or a column
\* of rotate(z); every border cell of them is nan
MplBorderIsNaN ==
    /\ \A i, j \in 1..Side45(NCols(call.zdata), NRows(call.zdata)) :
          IsBorder45(NCols(call.zdata), NRows(call.zdata), i, j)
          => call.result.exp_data["z"].array[j][i] = NaN
    /\ call.result.slider.alive
       => \A k \in 1..Side45(NRows(call.zdata), NCols(call.zdata)) :
             IF call.result.slider.slice_state = "x"
             THEN IsBorder45(NRows(call.zdata), NCols(call.zdata), 1, k)
                  => call.result.slider.line[k] = NaN
             ELSE IsBorder45(NRows(call.zdata), NCols(call.zdata), k, 1)
                  => call.result.slider.line[k] = NaN

\* C11 (as amended): for a non-zero rotation angle the border cells that the
\* rotation introduces are filled by a policy fixed per call site: plot_2d_qt
\* fills them with np.nanmin of the z array, the least of its cells that are
\* not nan (nan when there is none, -inf when a cell is -inf); plot_2d_mpl
\* and its slice update fill them with nan.
C11_BorderFillNanmin ==
    /\ call.op = "plot_2d_qt" /\ call.axis = 45 => QtBorderIs(nanmin(HandedCells))
    /\ call.op = "plot_2d_mpl" /\ call.axis = 45 => MplBorderIsNaN

\* a rotated image with a border cell was drawn with pyqtgraph from an array
\* with a cell that is not finite
C11_Witness ==
    /\ call.op = "plot_2d_qt" /\ call.axis = 45
    /\ \E i, j \in 1..Side45(NCols(call.zdata), NRows(call.zdata)) :
          IsBorder45(NCols(call.zdata), NRows(call.zdata), i, j)
    /\ \E k \in DOMAIN HandedCells : ~isfinite(HandedCells[k])
    /\ call.idx # 0

\* C11 (as stated): plot_2d_qt fills the border cells with the minimum
\* finite value of the z array, plot_2d_mpl and its slice update with nan.
C11_BorderFillMinFinite ==
    /\ call.op = "plot_2d_qt" /\ call.axis = 45
       => \E k \in DOMAIN HandedCells :
             /\ isfinite(HandedCells[k])
             /\ \A l \in DOMAIN HandedCells :
                   isfinite(HandedCells[l]) => LessEq(HandedCells[k], HandedCells[l])
             /\ QtBorderIs(HandedCells[k])
    /\ call.op = "plot_2d_mpl" /\ call.axis = 45 => MplBorderIsNaN

(***************************************************************************)
(* Numerical properties of background subtraction (SpecBacksub).           *)
(***************************************************************************)
\* the cells of the plotted array: ys for 1D data, zs for 2D data
PlottedCells ==
    IF plotter.plotted.zs = None THEN plotter.plotted.ys.array
    ELSE Flatten(plotter.plotted.zs.array)
\* the cells of the array of the current data
CurrentCells ==
    IF plotter.current_data.zs = None THEN plotter.current_data.ys.array
    ELSE Flatten(plotter.current_data.zs.array)

\* C12: for every array of finite values, the result of the global 'mean'
\* background subtraction sums to zero (exactly: the cells are rationals).
C12_MeanSubtractedSumsToZero ==
    ( /\ plotter.current_data # NoData
      /\ ~plotter.line_backsub_btn
      /\ plotter.backsub_radio = 3
      /\ AllFinite(CurrentCells) )
    => SumSeq(PlottedCells) = Fin(0)

\* the mean of a 2D array of finite values, which is not zero and not a whole
\* number, was subtracted
C12_Witness ==
    /\ plotter.current_data.zs # None
    /\ ~plotter.line_backsub_btn
    /\ plotter.backsub_radio = 3
    /\ AllFinite(CurrentCells)
    /\ nanmean(CurrentCells)[2] > 1
    /\ PlottedCells # CurrentCells
    /\ SumSeq(PlottedCells) = Fin(0)

(***************************************************************************)
(* The residual of a line fit (SpecMath).                                  *)
(***************************************************************************)
\* the slope np.polyfit(x, y, 1) returns: nan when y holds a value that is
\* not finite
RefitSlope(x, y) == IF AllFinite(y) THEN polyfit1(x, y)[1] ELSE NaN

\* C13: refitting a line to y - fit_line(x, y) against the same x gives the
\* slope 0.
C13_ResidualHasZeroSlope ==
    (call.op = "fit_line" /\ ~call.result.raised)
    => RefitSlope(Coords(NCols(call.zdata)),
                  Minus(call.zdata[call.axis], call.result)) = Fin(0)

\* C13 on finite data, where it holds: the residual of the fit of a row of
\* finite values has the slope 0.
C13_FiniteResidualHasZeroSlope ==
    (call.op = "fit_line" /\ ~call.result.raised /\ AllFinite(call.zdata[call.axis]))
    => RefitSlope(Coords(NCols(call.zdata)),
                  Minus(call.zdata[call.axis], call.result)) = Fin(0)

(***************************************************************************)
(* Line-by-line subtraction of the best-fit line (SpecMath).               *)
(***************************************************************************)
\* C14: line-by-line subtraction with the 'linear' reduction works per row
\* and per column for every N x M array: the call completes, every row has
\* its line fitted against the x coordinates subtracted, every column its
\* line fitted against the y coordinates.
C14_LinearLineByLineEveryShape ==
    (call.op = "subtract_line_by_line" /\ call.idx = 5) =>
       /\ ~call.result.raised
       /\ IF call.axis = 0
          THEN \A i \in 1..NRows(call.zdata) :
                  call.result.ret[i] =
                     Minus(call.zdata[i],
                           fit_line(Coords(NCols(call.zdata)), call.zdata[i]))
          ELSE \A j \in 1..NCols(call.zdata) :
                  Column(call.result.ret, j) =
                     Minus(Column(call.zdata, j),
                           fit_line(Coords(NRows(call.zdata)), Column(call.zdata, j)))

(***************************************************************************)
(* What background subtraction keeps (SpecUnits).                          *)
(***************************************************************************)
\* C15: background subtraction preserves names and units: the item handed to
\* plot_arrays after any reduction, global or line by line, has the name and
\* the unit of the item of current_data it was computed from (ys for 1D
\* data, zs for 2D data).
C15_BacksubKeepsNameAndUnit ==
    (plotter.nested > 0 /\ plotter.current_data # NoData) =>
       IF plotter.current_data.zs = None
       THEN /\ plotter.plotted.ys.name = plotter.current_data.ys.name
            /\ plotter.plotted.ys.units = plotter.current_data.ys.units
       ELSE /\ plotter.plotted.zs.name = plotter.current_data.zs.name
            /\ plotter.plotted.zs.units = plotter.current_data.zs.units

\* a 2D array converted to millivolt was plotted with a background
\* subtracted line by line
C15_Witness ==
    /\ plotter.nested > 0
    /\ plotter.current_data.zs # None
    /\ plotter.line_backsub_btn
    /\ plotter.backsub_radio = 3
    /\ plotter.current_data.zs.units = "millivolt"
    /\ plotter.plotted.zs.units = "millivolt"
    /\ plotter.plotted.zs.array # plotter.current_data.zs.array

(***************************************************************************)
(* Before any data is loaded (SpecBacksub).                                *)
(***************************************************************************)
\* C16: while no data has been loaded, replot and subtract_background do
\* nothing: called in that state they return it as it is, and whichever
\* controls have triggered them since the construction, plot_arrays has not
\* been called, exp_data is empty and every widget is shown or hidden as the
\* constructor left it.
C16_NoDataNoPlot ==
    plotter.current_data = NoData =>
       /\ replot(plotter) = plotter
       /\ \A idx \in -1..5 : subtract_background(plotter, idx) = plotter
       /\ plotter.nested = 0
       /\ plotter.plotted = NewPlotter.plotted
       /\ plotter.exp_data = NoExpData
       /\ plotter.visible = NewPlotter.visible

\* before any load, the background buttons and the line-by-line box have
\* been clicked
C16_Witness ==
    /\ plotter.current_data = NoData
    /\ plotter.backsub_radio = 5
    /\ plotter.line_backsub_btn
    /\ plotter.line_backsub_radio = 1
    /\ plotter.enabled.x_line_backsub_btn

(***************************************************************************)
(* Background subtraction starts from the loaded array (SpecBacksub).      *)
(***************************************************************************)
\* what the plot shows when the selected reduction is applied once to the
\* arrays of current_data
SubtractedOnce ==
    [xs |-> plotter.current_data.xs,
     ys |-> backsub(plotter, plotter.backsub_radio).ys,
     zs |-> backsub(plotter, plotter.backsub_radio).zs]

\* the plot is the selected reduction applied once, and a replot draws it
\* again
PlotIsSubtractedOnce ==
    plotter.current_data # NoData =>
       /\ ~backsub(plotter, plotter.backsub_radio).raised
       /\ plotter.plotted = SubtractedOnce
       /\ End(replot(Begin(plotter, <<0, 0>>))).plotted = plotter.plotted

\* C17: background subtraction is never cumulative: no replot and no
\* selection of a background changes the arrays of current_data, which stay
\* the loaded ones; the plotted data is the selected reduction applied once
\* to them; and replotting with unchanged settings plots the same data.
C17_BacksubNotCumulative ==
    /\ [][plotter'.dataset = plotter.dataset
            => plotter'.current_data = plotter.current_data]_vars
    /\ [](PlotIsSubtractedOnce)

\* C17 where the last handler completed: the same, in the states no
\* exception has led to.
C17_NotCumulativeWhenCompleted ==
    /\ [][plotter'.dataset = plotter.dataset
            => plotter'.current_data = plotter.current_data]_vars
    /\ [](~plotter.raised => PlotIsSubtractedOnce)

(***************************************************************************)
(* The widgets a plot shows (SpecView).                                    *)
(***************************************************************************)
\* C18: after every completed plot_arrays call exactly one rendering backend
\* is visible, chosen by the 'pyqtgraph' option: checked, the splitter is
\* shown with pyqt_plot for 1D data or pyqt_imview for 2D data, never both,
\* and the canvas and the toolbar are hidden; unchecked, the canvas and the
\* toolbar are shown and the splitter, pyqt_plot and pyqt_imview are hidden.
C18_OneBackendVisible ==
    (plotter.nested > 0 /\ ~plotter.raised) =>
       IF get_opt(plotter, "pyqtgraph")
       THEN /\ plotter.visible.pyqt_splitter
            /\ plotter.visible.pyqt_plot <=> plotter.plotted.zs = None
            /\ plotter.visible.pyqt_imview <=> plotter.plotted.zs # None
            /\ ~plotter.visible.canvas
            /\ ~plotter.visible.toolbar
       ELSE /\ plotter.visible.canvas
            /\ plotter.visible.toolbar
            /\ ~plotter.visible.pyqt_splitter
            /\ ~plotter.visible.pyqt_plot
            /\ ~plotter.visible.pyqt_imview

\* a 2D array was drawn with pyqtgraph
C18_Witness ==
    /\ plotter.nested > 0 /\ ~plotter.raised
    /\ get_opt(plotter, "pyqtgraph")
    /\ plotter.plotted.zs # None
    /\ plotter.visible.pyqt_imview
    /\ plotter.visible.pyqt_splitter

\* the step is a completed set_slice(idx) call: the slice button idx was
\* clicked (a step that changes the option, the angle or the dataset, or
\* that plots nothing although data is loaded, is none)
SetSliceCompleted(idx) ==
    /\ plotter'.slice_state = idx
    /\ plotter'.slice_radio = idx
    /\ plotter'.opt_checks = plotter.opt_checks
    /\ plotter'.rotate_slider = plotter.rotate_slider
    /\ plotter'.dataset = plotter.dataset
    /\ plotter.current_data # NoData => plotter'.nested > 0
    /\ ~plotter'.raised
    /\ \E view \in Views(SetsImage(plotter)) :
          plotter' = End(set_slice([Begin(plotter, view) EXCEPT !.slice_radio = idx],
                                   idx, TRUE))

\* C19 (as amended): after set_slice(idx) completes for idx in {0, 1, 2},
\* with no data or 2D data the x slice widget is shown exactly when
\* slice_state is 1 and the y slice widget exactly when slice_state is 2
\* (both hidden when it is 0); with 1D data both are hidden whatever
\* slice_state is.
C19_SliceWidgetsFollowState2D ==
    [][ \A idx \in 0..2 :
          SetSliceCompleted(idx) =>
             IF plotter.current_data # NoData /\ plotter.current_data.zs = None
             THEN /\ ~plotter'.visible.x_slice_widget
                  /\ ~plotter'.visible.y_slice_widget
             ELSE /\ plotter'.visible.x_slice_widget <=> plotter'.slice_state = 1
                  /\ plotter'.visible.y_slice_widget <=> plotter'.slice_state = 2
      ]_vars

\* the x slice was chosen while 1D data is plotted: update_slice has enabled
\* the line colour button, the plot has hidden the slice widgets
C19_Witness ==
    /\ plotter.current_data # NoData
    /\ plotter.current_data.zs = None
    /\ plotter.slice_radio = 1
    /\ plotter.slice_state = 1
    /\ plotter.nested > 0
    /\ plotter.enabled.line_color_btn
    /\ ~plotter.visible.x_slice_widget
    /\ ~plotter.visible.y_slice_widget

\* C19 (as stated): after set_slice(idx) completes, with any current data
\* (none, 1D or 2D), the x slice widget is shown exactly when slice_state is
\* 1 and the y slice widget exactly when slice_state is 2.
C19_SliceWidgetsFollowState ==
    [][ \A idx \in 0..2 :
          SetSliceCompleted(idx) =>
             /\ plotter'.visible.x_slice_widget <=> plotter'.slice_state = 1
             /\ plotter'.visible.y_slice_widget <=> plotter'.slice_state = 2
      ]_vars

(***************************************************************************)
(* The buttons of the line-by-line axis (SpecBacksub).                     *)
(***************************************************************************)
\* C20: in every reachable state the 'x' and 'y' line-by-line radio buttons
\* are enabled exactly when the line-by-line box is checked, whether the
\* user changed the box or plot_arrays unchecked it for 1D data.
C20_AxisButtonsFollowBox ==
    /\ plotter.enabled.x_line_backsub_btn <=> plotter.line_backsub_btn
    /\ plotter.enabled.y_line_backsub_btn <=> plotter.line_backsub_btn

\* plot_arrays has unchecked the box for 1D data: the box was checked when
\* the data was loaded, and the axis buttons are disabled with it
C20_Witness ==
    /\ plotter.current_data # NoData
    /\ plotter.current_data.zs = None
    /\ plotter.nested = 2
    /\ ~plotter.line_backsub_btn
    /\ ~plotter.enabled.line_backsub_btn
    /\ ~plotter.enabled.x_line_backsub_btn
    /\ ~plotter.enabled.y_line_backsub_btn

(***************************************************************************)
(* The box of the histogram bins (SpecExport).                             *)
(***************************************************************************)
\* C21: while the current data is 1D, or is 2D rendered with pyqtgraph, the
\* histogram bins spin box is disabled after every handled event, the
\* checking of the 'histogram' option included.
C21_BinsBoxDisabled ==
    ( /\ plotter.current_data # NoData
      /\ plotter.current_data.zs = None \/ get_opt(plotter, "pyqtgraph") )
    => ~plotter.enabled.bins_box

(***************************************************************************)
(* subtract_background called with a reduction index (SpecBacksub).        *)
(***************************************************************************)
\* what subtract_background(idx) plots, called in the current state
PlottedWithIndex(idx) ==
    End(subtract_background(Begin(plotter, <<0, 0>>), idx)).plotted
\* what subtract_background() plots when the button idx is the checked one
PlottedWithButton(idx) ==
    End(subtract_background([Begin(plotter, <<0, 0>>) EXCEPT !.backsub_radio = idx],
                            -1)).plotted

C22_ExplicitNonZeroIndexIsUsed ==
    plotter.current_data # NoData =>
       \A idx \in 1..5 : PlottedWithIndex(idx) = PlottedWithButton(idx)

(***************************************************************************)
(* The plot of a dataset that was just loaded (SpecBacksub).               *)
(***************************************************************************)
\* the step is the call update(d), which leaves the line-by-line axis as it
\* is
UpdateCalled(d) ==
    /\ plotter'.dataset = d
    /\ plotter'.line_backsub_radio = plotter.line_backsub_radio
    /\ \E view \in Views(get_opt(plotter, "pyqtgraph") /\ d.location = "_scan_") :
          plotter' = End(update(Begin(plotter, view), d))

\* C23: after update(dataset) completes, the background-subtraction
\* selection is 'none' and the last plot drawn shows the selected array with
\* no background subtracted, whatever reduction was selected before the call.
C23_UpdatePlotsUnsubtracted ==
    [][ \A d \in Datasets :
          (~plotter'.raised /\ UpdateCalled(d)) =>
             /\ plotter'.backsub_radio = 0
             /\ plotter'.current_data # NoData
             /\ plotter'.plotted = plotter'.current_data
      ]_vars

\* a 1D dataset was loaded while the line-by-line box was checked (the plot
\* calls nest in no other handler): update has completed, the selection is
\* 'none' and the plot shows the array
C23_Witness ==
    /\ plotter.current_data # NoData
    /\ plotter.current_data.zs = None
    /\ plotter.nested = 2
    /\ ~plotter.raised
    /\ plotter.backsub_radio = 0
    /\ plotter.plotted = plotter.current_data

(***************************************************************************)
(* The data kept for export (SpecExport).                                  *)
(***************************************************************************)
\* exp_data of the z array is the plotted z array
ExportedIsPlotted ==
    /\ plotter.plotted.zs.name \in DOMAIN plotter.exp_data
    /\ plotter.exp_data[plotter.plotted.zs.name].array = plotter.plotted.zs.array

\* C24: after a 2D plot with rotation 0, exp_data[zs.name]['array'] has the
\* shape and the cells of the background-subtracted z array passed to
\* plot_arrays, whether the plot was rendered with matplotlib or with
\* pyqtgraph.
C24_ExportedArrayIsPlottedArray ==
    ( /\ plotter.nested > 0 /\ ~plotter.raised
      /\ plotter.plotted.zs # None
      /\ plotter.rotate_slider = 0 )
    => ExportedIsPlotted

\* C24 for matplotlib alone, where it holds
C24_ExportedArrayIsPlottedArrayMpl ==
    ( /\ plotter.nested > 0 /\ ~plotter.raised
      /\ plotter.plotted.zs # None
      /\ plotter.rotate_slider = 0
      /\ ~get_opt(plotter, "pyqtgraph") )
    => ExportedIsPlotted

=============================================================================
